---- MODULE Spec2Model ----
(***************************************************************************)
(* Model of hotel_merger.py: the supplier adapters (Acme, Patagonia,       *)
(* Paperflies), HotelsService.merge_value / merge_and_save / find, and the *)
(* fetch_hotels pipeline.                                                  *)
(*                                                                         *)
(* Python values are tagged records: None, str (a sequence of one-         *)
(* character strings), int, list, and the Image dataclass.  A dict (a raw  *)
(* supplier record) is a function whose DOMAIN is the set of its keys.     *)
(***************************************************************************)
EXTENDS Integers, Sequences, FiniteSets, TLC

VARIABLES
    resp,             \* supplier name -> the list resp.json() returns for it
    si,               \* index into suppliers of the next supplier to fetch
    hotels,           \* the list handed to merge_and_save (all_supplier_data)
    data,             \* HotelsService.data, the catalog
    hotel_ids,        \* first argument of find
    destination_ids,  \* second argument of find
    result,           \* the list find returned
    pc                \* position in fetch_hotels

vars == <<resp, si, hotels, data, hotel_ids, destination_ids, result, pc>>

-----------------------------------------------------------------------------
(* Python values *)

None == [t |-> "none"]
Str(s) == [t |-> "str", s |-> s]
Num(n) == [t |-> "num", n |-> n]
List(l) == [t |-> "list", l |-> l]
Image(link, description) ==
    [t |-> "image", link |-> link, description |-> description]

DigitChars == <<"0", "1", "2", "3", "4", "5", "6", "7", "8", "9">>

\* str(n) for a non-negative int: its decimal digits
RECURSIVE IntToStr(_)
IntToStr(n) ==
    IF n < 10 THEN <<DigitChars[n + 1]>>
    ELSE IntToStr(n \div 10) \o <<DigitChars[(n % 10) + 1]>>

RECURSIVE ReprLen(_)
RECURSIVE JoinedReprLen(_)

\* len(", ".join(repr(e) for e in l)) for a non-empty list l
JoinedReprLen(l) ==
    IF Len(l) = 1 THEN ReprLen(l[1])
    ELSE ReprLen(l[1]) + 2 + JoinedReprLen(Tail(l))

\* len(repr(v)): a str gains its two quotes (the characters used here need
\* no escape), a list renders as "[e1, e2]", a dataclass as
\* "Image(link=..., description=...)"
ReprLen(v) ==
    CASE v.t = "none" -> 4
      [] v.t = "str" -> Len(v.s) + 2
      [] v.t = "num" -> Len(IntToStr(v.n))
      [] v.t = "list" -> IF Len(v.l) = 0 THEN 2 ELSE 2 + JoinedReprLen(v.l)
      [] v.t = "image" -> 26 + ReprLen(v.link) + ReprLen(v.description)

\* len(str(v)): str() of a str is the str itself, of anything else its repr
StrLen(v) == IF v.t = "str" THEN Len(v.s) ELSE ReprLen(v)

\* str(v) for the values an id or destination_id takes
ToStr(v) == IF v.t = "str" THEN v.s ELSE IntToStr(v.n)

-----------------------------------------------------------------------------
(* The canonical record *)

Location(lat, lng, address, city, country) ==
    [lat |-> lat, lng |-> lng, address |-> address, city |-> city,
     country |-> country]

Amenities(general, room) == [general |-> general, room |-> room]

Images(rooms, site, amenities) ==
    [rooms |-> rooms, site |-> site, amenities |-> amenities]

Hotel(id, destination_id, name, description, location, amenities, images, booking_conditions) ==
    [id |-> id, destination_id |-> destination_id, name |-> name,
     description |-> description, location |-> location,
     amenities |-> amenities, images |-> images,
     booking_conditions |-> booking_conditions]

-----------------------------------------------------------------------------
(* HotelsService.merge_value and merge_and_save *)

merge_value_tie_to_incoming(value1, value2) ==
    IF value1 = None /\ value2 = None THEN None
    ELSE IF value1 = None THEN value2
    ELSE IF value2 = None THEN value1
    ELSE IF StrLen(value1) > StrLen(value2) THEN value1 ELSE value2

merge_value_shorter_wins(value1, value2) ==
    IF value1 = None /\ value2 = None THEN None
    ELSE IF value1 = None THEN value2
    ELSE IF value2 = None THEN value1
    ELSE IF StrLen(value1) <= StrLen(value2) THEN value1 ELSE value2

merge_value(value1, value2) ==
    IF value1 = None /\ value2 = None THEN None
    ELSE IF value1 = None THEN value2
    ELSE IF value2 = None THEN value1
    ELSE IF StrLen(value1) >= StrLen(value2) THEN value1 ELSE value2

\* key = (hotel.id, hotel.destination_id)
KeyOf(hotel) == <<hotel.id, hotel.destination_id>>

\* the else branch with the last location line merging the wrong field
MergeInto_country_from_city(existing, hotel) ==
    [id |-> existing.id,
     destination_id |-> existing.destination_id,
     name |-> merge_value(existing.name, hotel.name),
     description |-> merge_value(existing.description, hotel.description),
     location |->
        [lat |-> merge_value(existing.location.lat, hotel.location.lat),
         lng |-> merge_value(existing.location.lng, hotel.location.lng),
         address |->
            merge_value(existing.location.address, hotel.location.address),
         city |-> merge_value(existing.location.city, hotel.location.city),
         country |->
            merge_value(existing.location.country, hotel.location.city)],
     amenities |->
        [general |->
            merge_value(existing.amenities.general, hotel.amenities.general),
         room |-> merge_value(existing.amenities.room, hotel.amenities.room)],
     images |->
        [rooms |-> merge_value(existing.images.rooms, hotel.images.rooms),
         site |-> merge_value(existing.images.site, hotel.images.site),
         amenities |->
            merge_value(existing.images.amenities, hotel.images.amenities)],
     booking_conditions |->
        merge_value(existing.booking_conditions, hotel.booking_conditions)]

\* the else branch of the loop body: existing is updated field by field
MergeInto(existing, hotel) ==
    [id |-> existing.id,
     destination_id |-> existing.destination_id,
     name |-> merge_value(existing.name, hotel.name),
     description |-> merge_value(existing.description, hotel.description),
     location |->
        [lat |-> merge_value(existing.location.lat, hotel.location.lat),
         lng |-> merge_value(existing.location.lng, hotel.location.lng),
         address |->
            merge_value(existing.location.address, hotel.location.address),
         city |-> merge_value(existing.location.city, hotel.location.city),
         country |->
            merge_value(existing.location.country, hotel.location.country)],
     amenities |->
        [general |->
            merge_value(existing.amenities.general, hotel.amenities.general),
         room |-> merge_value(existing.amenities.room, hotel.amenities.room)],
     images |->
        [rooms |-> merge_value(existing.images.rooms, hotel.images.rooms),
         site |-> merge_value(existing.images.site, hotel.images.site),
         amenities |->
            merge_value(existing.images.amenities, hotel.images.amenities)],
     booking_conditions |->
        merge_value(existing.booking_conditions, hotel.booking_conditions)]

\* merged_hotels is a dict, kept as the sequence of its (key, value) items in
\* insertion order
KeyIndex(merged_hotels, key) ==
    {i \in 1..Len(merged_hotels) : merged_hotels[i].key = key}

LoopBody_always_insert(merged_hotels, hotel) ==
    Append(merged_hotels, [key |-> KeyOf(hotel), value |-> hotel])

LoopBody_insert_first(merged_hotels, hotel) ==
    LET key == KeyOf(hotel) IN
    IF KeyIndex(merged_hotels, key) = {}
    THEN <<[key |-> key, value |-> hotel]>> \o merged_hotels
    ELSE LET i == CHOOSE j \in KeyIndex(merged_hotels, key) : TRUE IN
         [merged_hotels EXCEPT ![i].value = MergeInto(@, hotel)]

\* one iteration of "for hotel in hotels"
LoopBody(merged_hotels, hotel) ==
    LET key == KeyOf(hotel) IN
    IF KeyIndex(merged_hotels, key) = {}
    THEN Append(merged_hotels, [key |-> key, value |-> hotel])
    ELSE LET i == CHOOSE j \in KeyIndex(merged_hotels, key) : TRUE IN
         [merged_hotels EXCEPT ![i].value = MergeInto(@, hotel)]

RECURSIVE MergeLoop(_, _)
MergeLoop(merged_hotels, hs) ==
    IF Len(hs) = 0 THEN merged_hotels
    ELSE MergeLoop(LoopBody(merged_hotels, Head(hs)), Tail(hs))

\* the value merge_and_save assigns to self.data
merge_and_save(hs) ==
    LET merged_hotels == MergeLoop(<<>>, hs) IN
    [i \in 1..Len(merged_hotels) |-> merged_hotels[i].value]

-----------------------------------------------------------------------------
(* Supplier adapters: parse(dto) raises KeyError unless dto has every key   *)
(* the adapter reads                                                       *)

EmptyList == List(<<>>)

AcmeKeys ==
    {"Id", "DestinationId", "Name", "Description", "Latitude", "Longitude",
     "Address", "City", "Country", "Facilities"}

Acme_ok(dto) == AcmeKeys \subseteq DOMAIN dto

Acme_parse_facilities_as_room(dto) ==
    Hotel(dto["Id"], dto["DestinationId"], dto["Name"], dto["Description"],
          Location(dto["Latitude"], dto["Longitude"], dto["Address"],
                   dto["City"], dto["Country"]),
          Amenities(EmptyList, dto["Facilities"]),
          Images(EmptyList, EmptyList, EmptyList),
          EmptyList)

Acme_parse(dto) ==
    Hotel(dto["Id"], dto["DestinationId"], dto["Name"], dto["Description"],
          Location(dto["Latitude"], dto["Longitude"], dto["Address"],
                   dto["City"], dto["Country"]),
          Amenities(dto["Facilities"], EmptyList),
          Images(EmptyList, EmptyList, EmptyList),
          EmptyList)

PatagoniaKeys ==
    {"id", "destination", "name", "info", "lat", "lng", "address",
     "amenities", "images"}

\* every image of the list has the two keys the comprehension reads
ImagesOk(imgs, linkKey, descKey) ==
    \A k \in 1..Len(imgs) : {linkKey, descKey} \subseteq DOMAIN imgs[k]

\* [Image(link=i[linkKey], description=i[descKey]) for i in imgs]
ParseImages(imgs, linkKey, descKey) ==
    List([k \in 1..Len(imgs) |-> Image(imgs[k][linkKey], imgs[k][descKey])])

Patagonia_ok(dto) ==
    /\ PatagoniaKeys \subseteq DOMAIN dto
    /\ {"rooms", "amenities"} \subseteq DOMAIN dto["images"]
    /\ ImagesOk(dto["images"]["rooms"], "url", "description")
    /\ ImagesOk(dto["images"]["amenities"], "url", "description")

Patagonia_parse(dto) ==
    Hotel(dto["id"], dto["destination"], dto["name"], dto["info"],
          Location(dto["lat"], dto["lng"], dto["address"], Str(<<>>),
                   Str(<<>>)),
          Amenities(EmptyList, dto["amenities"]),
          Images(ParseImages(dto["images"]["rooms"], "url", "description"),
                 EmptyList,
                 ParseImages(dto["images"]["amenities"], "url",
                             "description")),
          EmptyList)

PaperfliesKeys ==
    {"hotel_id", "destination_id", "hotel_name", "details", "location",
     "amenities", "images", "booking_conditions"}

Paperflies_ok(dto) ==
    /\ PaperfliesKeys \subseteq DOMAIN dto
    /\ {"address", "country"} \subseteq DOMAIN dto["location"]
    /\ {"general", "room"} \subseteq DOMAIN dto["amenities"]
    /\ {"rooms", "site"} \subseteq DOMAIN dto["images"]
    /\ ImagesOk(dto["images"]["rooms"], "link", "caption")
    /\ ImagesOk(dto["images"]["site"], "link", "caption")

Paperflies_parse(dto) ==
    Hotel(dto["hotel_id"], dto["destination_id"], dto["hotel_name"],
          dto["details"],
          Location(Str(<<>>), Str(<<>>), dto["location"]["address"],
                   Str(<<>>), dto["location"]["country"]),
          Amenities(dto["amenities"]["general"], dto["amenities"]["room"]),
          Images(ParseImages(dto["images"]["rooms"], "link", "caption"),
                 ParseImages(dto["images"]["site"], "link", "caption"),
                 EmptyList),
          dto["booking_conditions"])

\* the suppliers list of fetch_hotels, in its order
suppliers == <<"Acme", "Paperflies", "Patagonia">>

ParseOk(supplier, dto) ==
    CASE supplier = "Acme" -> Acme_ok(dto)
      [] supplier = "Paperflies" -> Paperflies_ok(dto)
      [] supplier = "Patagonia" -> Patagonia_ok(dto)

Parse(supplier, dto) ==
    CASE supplier = "Acme" -> Acme_parse(dto)
      [] supplier = "Paperflies" -> Paperflies_parse(dto)
      [] supplier = "Patagonia" -> Patagonia_parse(dto)

\* BaseSupplier.fetch: the comprehension parses every record of the
\* response, and a KeyError in any of them leaves no list at all
FetchOk(supplier, response) ==
    \A k \in 1..Len(response) : ParseOk(supplier, response[k])

fetch(supplier, response) ==
    [k \in 1..Len(response) |-> Parse(supplier, response[k])]

-----------------------------------------------------------------------------
(* Bounded inputs of merge_and_save *)

MaxHotels == 3

a == <<"a">>
b == <<"b">>

\* values a scalar field (name, description, a location field) takes: null,
\* the adapters' "" placeholder, strings of equal and of different length,
\* and a number that renders as long as a one-letter string
ScalarVals ==
    <<None, Str(<<>>), Str(a), Str(b), Str(a \o b), Num(7)>>

\* values an amenities list or booking_conditions takes: null, the adapters'
\* [] placeholder, and lists of which the last two render equally long (10)
\* although one has two elements and the other one
ListVals ==
    <<None, List(<<>>), List(<<Str(a)>>), List(<<Str(b)>>),
      List(<<Str(a), Str(b)>>), List(<<Str(a \o b \o a \o b \o a \o b)>>)>>

\* values an images list takes
ImageVals ==
    <<None, List(<<>>), List(<<Image(Str(a), Str(b))>>),
      List(<<Image(Str(b), Str(a))>>), List(<<Image(Str(a \o b), Str(<<>>))>>),
      List(<<Image(Str(a), Str(b)), Image(Str(b), Str(a))>>)>>

Variants == 1..Len(ScalarVals)

\* the o-th entry after the v-th, cyclically: every field of a variant takes
\* a different entry of its table, and every field ranges over its whole
\* table as the variant does
Pick(table, v, o) == table[((v + o - 1) % Len(table)) + 1]

MkHotel(key, v) ==
    Hotel(key[1], key[2], Pick(ScalarVals, v, 0), Pick(ScalarVals, v, 1),
          Location(Pick(ScalarVals, v, 2), Pick(ScalarVals, v, 3),
                   Pick(ScalarVals, v, 4), Pick(ScalarVals, v, 5),
                   Pick(ScalarVals, v, 2)),
          Amenities(Pick(ListVals, v, 0), Pick(ListVals, v, 3)),
          Images(Pick(ImageVals, v, 0), Pick(ImageVals, v, 2),
                 Pick(ImageVals, v, 4)),
          Pick(ListVals, v, 5))

\* merge keys: a shared id under two destinations, and a destination that
\* is the int 1 for one record and the str "1" for another
MergeKeys ==
    {<<Str(<<"A">>), Num(1)>>, <<Str(<<"B">>), Num(1)>>,
     <<Str(<<"A">>), Str(<<"1">>)>>}

MergePool == {MkHotel(key, v) : key \in MergeKeys, v \in Variants}

SeqsUpTo(S, n) == UNION {[1..k -> S] : k \in 0..n}

-----------------------------------------------------------------------------
(* HotelsService.find *)

\* the text that means "no filter"
Sentinel == <<"n", "o", "n", "e">>

\* s.split(","): the pieces of s between its commas, one piece more than
\* there are commas, so that "".split(",") is [""]
RECURSIVE Split(_)
Split(s) ==
    LET commas == {i \in 1..Len(s) : s[i] = ","} IN
    IF commas = {} THEN <<s>>
    ELSE LET i == CHOOSE c \in commas : \A d \in commas : c <= d IN
         <<SubSeq(s, 1, i - 1)>> \o Split(SubSeq(s, i + 1, Len(s)))

\* x in l, for a list l
In(x, l) == \E k \in 1..Len(l) : l[k] = x

\* [] if ids == "none" else ids.split(",")
ParseIds(ids) == IF ids = Sentinel THEN <<>> ELSE Split(ids)

find_and_short_circuit(catalog, hids, dids) ==
    LET hl == ParseIds(hids)
        dl == ParseIds(dids)
        Keep(hotel) == In(ToStr(hotel.id), hl) /\ In(ToStr(hotel.destination_id), dl)
    IN IF Len(hl) = 0 /\ Len(dl) = 0 THEN catalog
       ELSE SelectSeq(catalog, Keep)

find_or_filter(catalog, hids, dids) ==
    LET hl == ParseIds(hids)
        dl == ParseIds(dids)
        Keep(hotel) == In(ToStr(hotel.id), hl) \/ In(ToStr(hotel.destination_id), dl)
    IN IF Len(hl) = 0 \/ Len(dl) = 0 THEN catalog
       ELSE SelectSeq(catalog, Keep)

find(catalog, hids, dids) ==
    LET hl == ParseIds(hids)
        dl == ParseIds(dids)
        Keep(hotel) == In(ToStr(hotel.id), hl) /\ In(ToStr(hotel.destination_id), dl)
    IN IF Len(hl) = 0 \/ Len(dl) = 0 THEN catalog
       ELSE SelectSeq(catalog, Keep)

-----------------------------------------------------------------------------
(* Bounded inputs of find *)

MaxFindHotels == 2
MaxQueryLen == 3

\* ids and destination ids of the records find is asked about: a plain id,
\* the empty id, and an int, which find compares as the str "1"
FindKeys ==
    {<<Str(<<"A">>), Str(<<"A">>)>>, <<Str(<<"A">>), Num(1)>>,
     <<Str(<<>>), Num(1)>>, <<Num(1), Num(1)>>}

FindPool == {MkHotel(key, Len(ScalarVals)) : key \in FindKeys}

QueryChars == {"A", "1", ","}

\* the sentinel and every text of identifier characters and commas
Queries == {Sentinel} \cup SeqsUpTo(QueryChars, MaxQueryLen)

-----------------------------------------------------------------------------
(* HotelsService as fetch_hotels drives it *)

\* svc.merge_and_save(hotels)
MergeAndSave ==
    /\ pc = "merge"
    /\ data' = merge_and_save(hotels)
    /\ pc' = "find"
    /\ UNCHANGED <<resp, si, hotels, hotel_ids, destination_ids, result>>

\* a HotelsService handed any bounded list of Hotel records
InitMerge ==
    /\ resp = <<>>
    /\ si = 0
    /\ hotels \in SeqsUpTo(MergePool, MaxHotels)
    /\ data = <<>>
    /\ hotel_ids = Sentinel
    /\ destination_ids = Sentinel
    /\ result = <<>>
    /\ pc = "merge"

NextMerge == MergeAndSave

\* filtered = svc.find(hotel_ids, destination_ids), its arguments drawn
\* from Q
Find(Q) ==
    /\ pc = "find"
    /\ \E h \in Q, d \in Q :
          /\ hotel_ids' = h
          /\ destination_ids' = d
          /\ result' = find(data, h, d)
    /\ pc' = "done"
    /\ UNCHANGED <<resp, si, hotels, data>>

\* a HotelsService that merges a bounded list and answers one query
InitFind ==
    /\ resp = <<>>
    /\ si = 0
    /\ hotels \in SeqsUpTo(FindPool, MaxFindHotels)
    /\ data = <<>>
    /\ hotel_ids = Sentinel
    /\ destination_ids = Sentinel
    /\ result = <<>>
    /\ pc = "merge"

NextFind == MergeAndSave \/ Find(Queries)

SpecFind == InitFind /\ [][NextFind]_vars

SpecMerge == InitMerge /\ [][NextMerge]_vars

-----------------------------------------------------------------------------
(* fetch_hotels *)

MaxRaw == 2

\* del d[k]
Without(d, k) == [x \in (DOMAIN d) \ {k} |-> d[x]]

AcmeRecord ==
    [Id |-> Str(<<"A">>), DestinationId |-> Num(1), Name |-> Str(a),
     Description |-> Str(a \o b), Latitude |-> Num(7), Longitude |-> None,
     Address |-> Str(a), City |-> Str(b), Country |-> Str(a \o b),
     Facilities |-> List(<<Str(a)>>)]

PaperfliesRecord ==
    [hotel_id |-> Str(<<"A">>), destination_id |-> Num(1),
     hotel_name |-> Str(b), details |-> Str(a),
     location |-> [address |-> Str(b), country |-> Str(a)],
     amenities |-> [general |-> List(<<Str(b)>>),
                    room |-> List(<<Str(a), Str(b)>>)],
     images |-> [rooms |-> <<[link |-> Str(a), caption |-> Str(b)]>>,
                 site |-> <<[link |-> Str(b), caption |-> Str(a)]>>],
     booking_conditions |-> List(<<Str(a)>>)]

PatagoniaRecord ==
    [id |-> Str(<<"A">>), destination |-> Num(1), name |-> Str(a \o b),
     info |-> None, lat |-> Num(7), lng |-> Num(7), address |-> Str(a \o b),
     amenities |-> List(<<Str(b)>>),
     images |-> [rooms |-> <<[url |-> Str(b), description |-> Str(a)]>>,
                 amenities |-> <<[url |-> Str(a), description |-> Str(a)]>>]]

\* what each endpoint may answer with: well-formed records, a record of
\* another hotel, a record whose optional data is null or empty, and
\* records that lack a key, at the top level or inside an image
RawPool ==
    [Acme |-> {AcmeRecord, Without(AcmeRecord, "Name")},
     Paperflies |->
        {PaperfliesRecord,
         [PaperfliesRecord EXCEPT !.hotel_id = Str(<<"B">>),
                                  !.amenities.room = EmptyList,
                                  !.images.site = <<>>]},
     Patagonia |->
        {[PatagoniaRecord EXCEPT !.amenities = None],
         [PatagoniaRecord EXCEPT
             !.images.rooms = <<[description |-> Str(a)]>>]}]

\* the arguments the command line passes on
CliQueries == {Sentinel, <<>>, <<"A">>}

Init ==
    /\ resp \in {[Acme |-> x, Paperflies |-> y, Patagonia |-> z] :
                    x \in SeqsUpTo(RawPool.Acme, MaxRaw),
                    y \in SeqsUpTo(RawPool.Paperflies, MaxRaw),
                    z \in SeqsUpTo(RawPool.Patagonia, MaxRaw)}
    /\ si = 1
    /\ hotels = <<>>
    /\ data = <<>>
    /\ hotel_ids = Sentinel
    /\ destination_ids = Sentinel
    /\ result = <<>>
    /\ pc = "fetch"

\* one iteration of "for supplier in suppliers": fetch and extend
FetchSupplier ==
    /\ pc = "fetch"
    /\ FetchOk(suppliers[si], resp[suppliers[si]])
    /\ hotels' = hotels \o fetch(suppliers[si], resp[suppliers[si]])
    /\ si' = si + 1
    /\ pc' = IF si = Len(suppliers) THEN "merge" ELSE "fetch"
    /\ UNCHANGED <<resp, data, hotel_ids, destination_ids, result>>

\* the KeyError of a parse leaves fetch and fetch_hotels, which has no
\* handler: nothing is merged and nothing is returned
FetchRaises ==
    /\ pc = "fetch"
    /\ ~FetchOk(suppliers[si], resp[suppliers[si]])
    /\ pc' = "raised"
    /\ UNCHANGED <<resp, si, hotels, data, hotel_ids, destination_ids, result>>

Next == FetchSupplier \/ FetchRaises \/ MergeAndSave \/ Find(CliQueries)

Spec == Init /\ [][Next]_vars

-----------------------------------------------------------------------------
(* Properties of merge_and_save *)

Merged == pc = "find"

\* the fields merge_and_save merges
Fields ==
    {"name", "description", "lat", "lng", "address", "city", "country",
     "general", "room", "rooms", "site", "amenities", "booking_conditions"}

Get(h, f) ==
    CASE f = "name" -> h.name
      [] f = "description" -> h.description
      [] f = "lat" -> h.location.lat
      [] f = "lng" -> h.location.lng
      [] f = "address" -> h.location.address
      [] f = "city" -> h.location.city
      [] f = "country" -> h.location.country
      [] f = "general" -> h.amenities.general
      [] f = "room" -> h.amenities.room
      [] f = "rooms" -> h.images.rooms
      [] f = "site" -> h.images.site
      [] f = "amenities" -> h.images.amenities
      [] f = "booking_conditions" -> h.booking_conditions

InputKeys == {KeyOf(hotels[i]) : i \in 1..Len(hotels)}

\* positions of the input records that carry the key
Group(key) == {i \in 1..Len(hotels) : KeyOf(hotels[i]) = key}

\* positions of the catalog entries that carry the key
Entries(key) == {i \in 1..Len(data) : KeyOf(data[i]) = key}

EntryOf(key) == data[CHOOSE i \in Entries(key) : TRUE]

\* null, or an adapter's empty placeholder
IsAbsent(v) == v \in {None, Str(<<>>), List(<<>>)}

\* the groups of exactly two records: <<first arrived, second arrived>>
Pairs ==
    {p \in (1..Len(hotels)) \X (1..Len(hotels)) :
        /\ p[1] < p[2]
        /\ Group(KeyOf(hotels[p[1]])) = {p[1], p[2]}}

\* C1: after merge_and_save, no two entries of the catalog have the same
\* (id, destination_id) pair.
C1_UniqueKeys ==
    Merged =>
        \A i, j \in 1..Len(data) : KeyOf(data[i]) = KeyOf(data[j]) => i = j

C1_Witness ==
    /\ Merged
    /\ Len(hotels) = MaxHotels
    /\ Len(data) = 2
    /\ \E i, j \in 1..Len(hotels) : i # j /\ KeyOf(hotels[i]) = KeyOf(hotels[j])

\* C2: when exactly two records share a merge key and, for a merged field,
\* one holds an absent value (null, "" or []) and the other a present one,
\* the catalog entry holds the present value, whichever arrived first.
C2_AbsenceNeverWins ==
    Merged =>
        \A p \in Pairs : \A f \in Fields :
            LET x == Get(hotels[p[1]], f)
                y == Get(hotels[p[2]], f)
                e == EntryOf(KeyOf(hotels[p[1]]))
            IN /\ (IsAbsent(x) /\ ~IsAbsent(y)) => Get(e, f) = y
               /\ (~IsAbsent(x) /\ IsAbsent(y)) => Get(e, f) = x

\* the placeholder arrives first, the present value second, and the entry
\* holds the present value
C2_Witness ==
    /\ Merged
    /\ \E p \in Pairs :
          LET e == EntryOf(KeyOf(hotels[p[1]])) IN
          /\ hotels[p[1]].amenities.room = List(<<>>)
          /\ ~IsAbsent(hotels[p[2]].amenities.room)
          /\ e.amenities.room = hotels[p[2]].amenities.room
          /\ hotels[p[1]].location.lng = Str(<<>>)
          /\ ~IsAbsent(hotels[p[2]].location.lng)
          /\ e.location.lng = hotels[p[2]].location.lng

\* C3: when exactly two records share a merge key and both hold a non-null
\* value for a field, the entry holds the value that renders longer if the
\* lengths differ, and the value of the earlier record if they are equal.
C3_TieBreak ==
    Merged =>
        \A p \in Pairs : \A f \in Fields :
            LET x == Get(hotels[p[1]], f)
                y == Get(hotels[p[2]], f)
                e == EntryOf(KeyOf(hotels[p[1]]))
            IN (x # None /\ y # None) =>
                  /\ StrLen(x) > StrLen(y) => Get(e, f) = x
                  /\ StrLen(x) < StrLen(y) => Get(e, f) = y
                  /\ StrLen(x) = StrLen(y) => Get(e, f) = x

\* two different lists that render equally long: the earlier one is kept
C3_Witness ==
    /\ Merged
    /\ \E p \in Pairs :
          LET x == hotels[p[1]].amenities.general
              y == hotels[p[2]].amenities.general
              e == EntryOf(KeyOf(hotels[p[1]]))
          IN /\ x # None /\ y # None /\ x # y
             /\ Len(x.l) < Len(y.l)
             /\ StrLen(x) = StrLen(y)
             /\ e.amenities.general = x

\* positions of the first occurrence of each key in the input
FirstSeen ==
    {i \in 1..Len(hotels) :
        \A j \in 1..(i - 1) : KeyOf(hotels[j]) # KeyOf(hotels[i])}

\* C9: the keys of the catalog are the keys of the input with every
\* occurrence after the first removed, in input order; one record yields
\* that record unchanged and no record yields an empty catalog.
C9_FirstSeenOrder ==
    Merged =>
        /\ Len(data) = Cardinality(FirstSeen)
        /\ \A i \in FirstSeen :
              KeyOf(data[Cardinality({j \in FirstSeen : j <= i})])
                  = KeyOf(hotels[i])
        /\ Len(hotels) = 1 => data = hotels
        /\ Len(hotels) = 0 => data = <<>>

C9_Witness ==
    /\ Merged
    /\ Len(hotels) = MaxHotels
    /\ KeyOf(hotels[1]) # KeyOf(hotels[2])
    /\ KeyOf(hotels[Len(hotels)]) = KeyOf(hotels[1])
    /\ Len(data) = 2
    /\ KeyOf(data[1]) = KeyOf(hotels[1])
    /\ KeyOf(data[2]) = KeyOf(hotels[2])

\* the non-null values of a group for a field, by position
NonNull(key, f) == {i \in Group(key) : Get(hotels[i], f) # None}

\* the earliest position among those of maximal rendered length
FirstLongest(S, f) ==
    CHOOSE i \in S :
        /\ \A j \in S : StrLen(Get(hotels[j], f)) <= StrLen(Get(hotels[i], f))
        /\ \A j \in S :
              StrLen(Get(hotels[j], f)) = StrLen(Get(hotels[i], f)) => i <= j

\* C10: for every key of the input and every merged field, the catalog has
\* an entry for the key whose field is the earliest-arrived of the group's
\* non-null values of maximal rendered length, and null if the group has
\* only nulls there; records of other keys do not matter.
C10_FoldResult ==
    Merged =>
        \A key \in InputKeys :
            /\ Entries(key) # {}
            /\ \A f \in Fields :
                  Get(EntryOf(key), f) =
                      IF NonNull(key, f) = {} THEN None
                      ELSE Get(hotels[FirstLongest(NonNull(key, f), f)], f)

\* three records of one key: a short value, then two different longest ones
C10_Witness ==
    /\ Merged
    /\ Len(hotels) = 3
    /\ Len(data) = 1
    /\ StrLen(hotels[1].name) < StrLen(hotels[2].name)
    /\ StrLen(hotels[2].name) = StrLen(hotels[3].name)
    /\ hotels[2].name # hotels[3].name
    /\ hotels[1].name # None
    /\ data[1].name = hotels[2].name

-----------------------------------------------------------------------------
(* Properties of find *)

Found == pc = "done"

\* the identifiers a comma-separated text lists: its maximal comma-free
\* stretches
Listed(s) ==
    {SubSeq(s, i, j) : <<i, j>> \in
        {q \in (1..(Len(s) + 1)) \X (0..Len(s)) :
            /\ q[1] <= q[2] + 1
            /\ \A k \in q[1]..q[2] : s[k] # ","
            /\ q[1] = 1 \/ s[q[1] - 1] = ","
            /\ q[2] = Len(s) \/ s[q[2] + 1] = ","}}

\* positions of the catalog entries that satisfy both filters
Matching ==
    {i \in 1..Len(data) :
        /\ ToStr(data[i].id) \in Listed(hotel_ids)
        /\ ToStr(data[i].destination_id) \in Listed(destination_ids)}

\* C4: when either argument of find is the sentinel, find returns the
\* whole catalog, whatever the other argument lists.
C4_SentinelShortCircuit ==
    (Found /\ (hotel_ids = Sentinel \/ destination_ids = Sentinel)) =>
        result = data

\* the other filter lists an identifier no entry has
C4_Witness ==
    /\ Found
    /\ hotel_ids = Sentinel
    /\ destination_ids = <<"A", "A">>
    /\ Len(data) = MaxFindHotels
    /\ result = data

\* C5: when either argument of find is the empty text, find returns the
\* whole catalog, whatever the other argument is.
C5_EmptyInputIsNoFilter ==
    (Found /\ (hotel_ids = <<>> \/ destination_ids = <<>>)) => result = data

-----------------------------------------------------------------------------
(* Properties of the adapters and of fetch_hotels *)

\* number of records the suppliers before the k-th contributed
RECURSIVE Offset(_)
Offset(k) == IF k = 1 THEN 0 ELSE Offset(k - 1) + Len(resp[suppliers[k - 1]])

\* the suppliers whose records are in the merge input
Fetched == 1..(si - 1)

\* C7 as stated: every normalized record has an empty amenities.general or
\* an empty amenities.room.
C7_AtMostOneList ==
    \A i \in 1..Len(hotels) :
        hotels[i].amenities.general = EmptyList
            \/ hotels[i].amenities.room = EmptyList

\* C7: Acme takes amenities.general from the record (Facilities) and emits
\* room empty; Patagonia takes amenities.room from the record (amenities)
\* and emits general empty; Paperflies takes both lists from the record.
C7_AmenitiesBySupplier ==
    \A k \in Fetched : \A j \in 1..Len(resp[suppliers[k]]) :
        LET dto == resp[suppliers[k]][j]
            h == hotels[Offset(k) + j]
        IN CASE suppliers[k] = "Acme" ->
                    h.amenities = Amenities(dto["Facilities"], EmptyList)
             [] suppliers[k] = "Patagonia" ->
                    h.amenities = Amenities(EmptyList, dto["amenities"])
             [] suppliers[k] = "Paperflies" ->
                    h.amenities = Amenities(dto["amenities"]["general"],
                                            dto["amenities"]["room"])

\* all three suppliers answered, and a Paperflies record filled both lists
C7_Witness ==
    /\ pc = "merge"
    /\ \A k \in 1..Len(suppliers) : Len(resp[suppliers[k]]) > 0
    /\ hotels[1].amenities.general # EmptyList
    /\ hotels[1].amenities.room = EmptyList
    /\ \E i \in 1..Len(hotels) :
          /\ hotels[i].amenities.general \notin {EmptyList, None}
          /\ hotels[i].amenities.room \notin {EmptyList, None}
    /\ hotels[Len(hotels)].amenities.general = EmptyList

\* C8: when fetch_hotels has ended, every raw record that has the keys its
\* adapter requires has been normalized and merged: the catalog has an
\* entry for its key, whatever other records lack.
C8_PerRecordIsolation ==
    pc \in {"raised", "done"} =>
        \A k \in 1..Len(suppliers) : \A j \in 1..Len(resp[suppliers[k]]) :
            ParseOk(suppliers[k], resp[suppliers[k]][j]) =>
                Entries(KeyOf(Parse(suppliers[k], resp[suppliers[k]][j]))) # {}

====
